---- MODULE Spec2Model ----
(***************************************************************************)
(* OPC-UA gateway: the notification fan-out (OpcUaConnector / SubHandler), *)
(* the HTTP cache (UnityConnector), the persistence worker and storage     *)
(* reconnect (DbConnector) and the start-up / shutdown sequence (main.py), *)
(* as threads that interleave statement by statement.                      *)
(***************************************************************************)
EXTENDS Integers, Sequences, FiniteSets, TLC

\* ---------------------------------------------------------------- bounds
MaxClock == 1
MaxWorkers == 3
MaxConns == 2

\* ------------------------------------------------------- configuration
\* [DATABASE] log_interval: seconds between two persistence cycles
LogInterval == 2

\* [MONITORING] node<i>_id / node<i>_name / node<i>_unit
nodes_to_monitor ==
    << [id |-> "ns=2;i=5", name |-> "Temp1", unit |-> "C"],
       [id |-> "ns=2;i=6", name |-> "Flow",  unit |-> ""] >>

NodeIdx == DOMAIN nodes_to_monitor
TagNames == {nodes_to_monitor[i].name : i \in NodeIdx}
KnownNodeIds == {nodes_to_monitor[i].id : i \in NodeIdx}
UnknownNodeId == "ns=2;i=99"
NodeIds == KnownNodeIds \cup {UnknownNodeId}

\* --------------------------------------------------------- value domain
\* Python None and a float rounded to two decimals (held in hundredths).
None == << >>
Float(c) == << c >>

\* Payloads the server delivers: a number (in thousandths) or a text.
Num(m) == [kind |-> "num", milli |-> m]
Text == [kind |-> "text", milli |-> 0]
RawVals == {Num(23456), Text}

\* round(x, 2): to the nearest hundredth, ties to even
Round2(m) ==
    LET q == m \div 10
        r == m % 10
    IN  IF r < 5 THEN q
        ELSE IF r > 5 THEN q + 1
        ELSE IF q % 2 = 0 THEN q ELSE q + 1

safe_float_zero(raw) ==
    IF raw.kind = "num" THEN Float(Round2(raw.milli)) ELSE Float(0)

safe_float(raw) ==
    IF raw.kind = "num" THEN Float(Round2(raw.milli)) ELSE None

\* datetime.isoformat(): the text form of an instant
isoformat(t) == << "iso", t >>

\* ------------------------------------------------------------ dict model
\* A Python dict: entries in insertion order, one per key.
Keys(d) == {d[i].k : i \in DOMAIN d}
Has(d, key) == key \in Keys(d)
Get(d, key) == d[CHOOSE i \in DOMAIN d : d[i].k = key].v
DictAppend(d, key, val) == Append(d, [k |-> key, v |-> val])

DictSet(d, key, val) ==
    IF Has(d, key)
    THEN [i \in DOMAIN d |-> IF d[i].k = key THEN [k |-> key, v |-> val] ELSE d[i]]
    ELSE Append(d, [k |-> key, v |-> val])

Sample(value, unit, timestamp) ==
    [value |-> value, unit |-> unit, timestamp |-> timestamp]

\* node_info for a node id (line 202): 0 when no configured node has the id
NodeInfoIdxOrFirst(node_id) ==
    IF \E i \in NodeIdx : nodes_to_monitor[i].id = node_id
    THEN CHOOSE i \in NodeIdx : nodes_to_monitor[i].id = node_id
    ELSE 1

NodeInfoIdx(node_id) ==
    IF \E i \in NodeIdx : nodes_to_monitor[i].id = node_id
    THEN CHOOSE i \in NodeIdx :
            /\ nodes_to_monitor[i].id = node_id
            /\ \A j \in NodeIdx : nodes_to_monitor[j].id = node_id => i <= j
    ELSE 0

UnitOf(name) ==
    nodes_to_monitor[CHOOSE i \in NodeIdx : nodes_to_monitor[i].name = name].unit

\* ------------------------------------------------------------- listeners
DbCb == "db_update_callback"
UnityCb == "on_value_update"
FaultyCb == "faulty_listener"
Listeners == {DbCb, UnityCb, FaultyCb}

\* the two threads that run _notify_callbacks
Notifiers == {"main", "sub"}

NoNote == [active |-> FALSE, name |-> "", value |-> None, unit |-> "", ts |-> 0, i |-> 0]

VARIABLES
    clock,              \* datetime.now(), the gateway's local clock
    mpc,                \* main thread: position in main() / signal_handler
    msi,                \* main thread: index of the node being subscribed
    mraw,               \* main thread: payload read by node.get_value()
    mret,               \* main thread: where DbConnector.disconnect() returns to
    opc_connected,      \* OpcUaConnector.connected
    opc_client,         \* OpcUaConnector.client is not None
    opcSession,         \* server: the session of that client is alive
    subscription,       \* OpcUaConnector.subscription is not None
    handles,            \* nodes with a live monitored item
    latest_values,      \* OpcUaConnector.latest_values
    value_callbacks,    \* OpcUaConnector.value_callbacks
    note,               \* per notifier: the _notify_callbacks call in progress
    unity_latest,       \* UnityConnector.latest_values
    unity_running,      \* UnityConnector.running
    unity_db,           \* UnityConnector.db is not None
    serving,            \* UnityConnector.server_thread runs serve_forever
    req,                \* the HTTP server thread: the history request it handles
    db_enabled,         \* [DATABASE] enabled
    db_exists,          \* main.db_connector is not None
    conn,               \* DbConnector.conn (0: None)
    cursor,             \* DbConnector.cursor (0: None)
    db_connected,       \* DbConnector.connected
    opc_to_db_mapping,  \* DbConnector.opc_to_db_mapping
    current_values,     \* DbConnector.current_values
    logging_active,     \* DbConnector.logging_active
    logging_thread,     \* DbConnector.logging_thread (0: None)
    shutdown_event,     \* DbConnector.shutdown_event.is_set()
    dbUp,               \* storage: the server is reachable
    connAlive,          \* storage: the sessions that are still usable
    storedMapping,      \* storage: the rows of table tagnames
    eventLog,           \* storage: the messages written to event_log
    wpc,                \* per worker thread: position in _logging_worker
    wk,                 \* per worker: seconds slept in the interval wait
    wit,                \* per worker: position of the dict iterator (line 141)
    witlen,             \* per worker: dict size when the iteration began
    wbatch,             \* per worker: field_names[1:] paired with values
    wcur,               \* per worker: the cursor / connection a call runs on
    wjoin,              \* per thread: the join() of its disconnect() call
    lastEv,             \* history: per tag, the data-change event whose entry
                        \* latest_values holds (none once an initial read is stored)
    unk,                \* history: an event for an unknown node was dropped
    hist                \* history: per worker, what its cycles did

mainVars == << mpc, msi, mraw, mret >>
opcVars == << opc_connected, opc_client, opcSession, subscription, handles >>
fanVars == << latest_values, value_callbacks, note, lastEv, unk >>
unityVars == << unity_latest, unity_running, unity_db, serving, req >>
dbVars == << db_exists, conn, cursor, db_connected, opc_to_db_mapping,
             logging_active, logging_thread, shutdown_event >>
storVars == << dbUp, connAlive, storedMapping, eventLog >>
workerVars == << wpc, wk, wit, witlen, wbatch, wcur, hist >>

vars == << clock, mainVars, opcVars, fanVars, unityVars, db_enabled, dbVars,
           current_values, storVars, workerVars, wjoin >>

Workers == 1 .. MaxWorkers
\* thread 0 is the main thread
Threads == 0 .. MaxWorkers

\* seen: an event wrote the entry; again: an earlier event for the tag came
\* before it; raw, at: its payload and the clock at delivery; regs: the number
\* of listeners registered at delivery
NoEv == [seen |-> FALSE, again |-> FALSE, raw |-> Text, at |-> 0, regs |-> 0]
\* w: the thread being joined; st: how the join ended; from: where that thread
\* was when the join began
NoJoin == [w |-> 0, st |-> "none", from |-> ""]
\* st: "dropped" once an event for an unknown node id was handled, "after"
\* once an event for a configured node followed it; name: the tag of that event
NoUnk == [st |-> "none", name |-> ""]
DroppedUnknown == [st |-> "dropped", name |-> ""]
AfterUnknown(u, name) == IF u.st = "dropped" THEN [st |-> "after", name |-> name] ELSE u
NextUnk(u, node_id, name) ==
    IF node_id = UnknownNodeId THEN DroppedUnknown ELSE AfterUnknown(u, name)
\* the request in progress on the HTTP server thread. pc: its position; name:
\* the tag asked for; field: the column found for it; cur: the cursor its query
\* runs on; res: the answer; rows: what fetchall returned; body: the rows sent;
\* failed: the query raised mariadb.Error
NoReq == [pc |-> "idle", name |-> "", field |-> "", cur |-> 0, res |-> "",
          rows |-> << >>, body |-> << >>, failed |-> FALSE]
\* failed: an insert of this worker raised mariadb.Error; inserts: inserts it
\* issued since its interval wait ended; stop: the seconds it had slept when
\* disconnect() set the stop event on its sleep (-1: never); dirty: the cache
\* or the mapping changed under its cycle; reUp: the storage has been reachable
\* and table tagnames unchanged since its _try_reconnect began; snap: the cache
\* as it was when the iteration of line 141 began (empty outside the iteration)
NoHist == [failed |-> FALSE, inserts |-> 0, stop |-> -1, dirty |-> FALSE, reUp |-> FALSE,
           snap |-> << >>]

\* The rows table tagnames can hold: tag name -> column of process_data
MappingA == [n \in {"Temp1"} |-> "temp_1"]
MappingB == [n \in {"Temp1", "Flow"} |-> IF n = "Temp1" THEN "temp_c" ELSE "flow"]
NoMapping == [n \in {} |-> ""]
Mappings == {MappingA, MappingB}

Init ==
    /\ clock = 0
    /\ mpc = "opc_connect"
    /\ msi = 0
    /\ mraw = Text
    /\ mret = ""
    /\ opc_connected = FALSE
    /\ opc_client = FALSE
    /\ opcSession = FALSE
    /\ subscription = FALSE
    /\ handles = {}
    /\ latest_values = << >>
    /\ value_callbacks = << >>
    /\ note = [t \in Notifiers |-> NoNote]
    /\ unity_latest = << >>
    /\ unity_running = FALSE
    /\ unity_db = FALSE
    /\ serving = FALSE
    /\ req = NoReq
    /\ unk = NoUnk
    /\ db_enabled = FALSE
    /\ db_exists = FALSE
    /\ conn = 0
    /\ cursor = 0
    /\ db_connected = FALSE
    /\ opc_to_db_mapping = NoMapping
    /\ current_values = << >>
    /\ logging_active = FALSE
    /\ logging_thread = 0
    /\ shutdown_event = FALSE
    /\ dbUp = TRUE
    /\ connAlive = {}
    /\ storedMapping = MappingA
    /\ eventLog = {}
    /\ wpc = [w \in Workers |-> "none"]
    /\ wk = [w \in Workers |-> 0]
    /\ wit = [w \in Workers |-> 0]
    /\ witlen = [w \in Workers |-> 0]
    /\ wbatch = [w \in Workers |-> << >>]
    /\ wcur = [t \in Threads |-> 0]
    /\ wjoin = [t \in Threads |-> NoJoin]
    /\ lastEv = [n \in TagNames |-> NoEv]
    /\ hist = [w \in Workers |-> NoHist]

\* ------------------------------------------------------------ the clock
Tick ==
    /\ clock < MaxClock
    /\ clock' = clock + 1
    /\ UNCHANGED << mainVars, opcVars, fanVars, unityVars, db_enabled, dbVars,
                    current_values, storVars, workerVars, wjoin >>

\* ------------------------------------------------------ the listeners
add_value_callback(cbs, cb) == Append(cbs, cb)

on_value_update_keep_first(d, name, value, unit, timestamp) ==
    IF Has(d, name) THEN d ELSE DictSet(d, name, Sample(value, unit, isoformat(timestamp)))

on_value_update_value_only(d, name, value, unit, timestamp) ==
    IF Has(d, name)
    THEN DictSet(d, name, [Get(d, name) EXCEPT !.value = value])
    ELSE DictSet(d, name, Sample(value, unit, isoformat(timestamp)))

on_value_update(d, name, value, unit, timestamp) ==
    DictSet(d, name, Sample(value, unit, isoformat(timestamp)))

update_value(d, name, value, unit, timestamp) ==
    DictSet(d, name, Sample(value, unit, timestamp))

\* db_update_callback: the update reaches DbConnector only while it is connected
db_update_callback(d, name, value, unit, timestamp) ==
    IF db_exists /\ db_connected THEN update_value(d, name, value, unit, timestamp) ELSE d

\* _notify_callbacks, the loop: the index of the next listener after listener i
\* has returned or raised; past the end of the list the loop is over.
NextListenerAbort(i, raised) == IF raised THEN Len(value_callbacks) + 1 ELSE i + 1

NextListener(i, raised) == i + 1

\* What the main thread does once its own _notify_callbacks call returns
\* (subscribe_to_nodes, the loop over nodes_to_monitor).
MainNextNode ==
    IF msi < Len(nodes_to_monitor)
    THEN mpc' = "sub_node" /\ msi' = msi + 1
    ELSE mpc' = "db_init" /\ msi' = 0

NotifyReturn(t) ==
    IF t = "main"
    THEN MainNextNode /\ UNCHANGED << mraw, mret >>
    ELSE UNCHANGED mainVars

\* line 187: timestamp = datetime.datetime.now()
NotifyBegin(t) ==
    /\ mpc # "exited"
    /\ note[t].active /\ note[t].i = 0
    /\ LET n == note[t]
           over == Len(value_callbacks) = 0
       IN  /\ note' = [note EXCEPT ![t] =
                         IF over THEN NoNote ELSE [n EXCEPT !.ts = clock, !.i = 1]]
           /\ IF over THEN NotifyReturn(t) ELSE UNCHANGED mainVars
    /\ UNCHANGED << clock, opcVars, latest_values, value_callbacks, lastEv, unk,
                    unityVars, db_enabled, dbVars, current_values, storVars,
                    workerVars, wjoin >>

\* lines 188-192: one listener is called; what it raises is caught and logged
CallListener(t) ==
    /\ mpc # "exited"
    /\ note[t].active /\ note[t].i >= 1
    /\ LET n == note[t]
           cb == value_callbacks[n.i]
           raised == cb = FaultyCb
           j == NextListener(n.i, raised)
           over == j > Len(value_callbacks)
       IN  /\ current_values' =
                 IF cb = DbCb
                 THEN db_update_callback(current_values, n.name, n.value, n.unit, n.ts)
                 ELSE current_values
           /\ unity_latest' =
                 IF cb = UnityCb
                 THEN on_value_update(unity_latest, n.name, n.value, n.unit, n.ts)
                 ELSE unity_latest
           /\ note' = [note EXCEPT ![t] = IF over THEN NoNote ELSE [n EXCEPT !.i = j]]
           /\ IF over THEN NotifyReturn(t) ELSE UNCHANGED mainVars
    /\ UNCHANGED << clock, opcVars, latest_values, value_callbacks, lastEv, unk,
                    unity_running, unity_db, serving, req, db_enabled, dbVars, storVars,
                    workerVars, wjoin >>

\* A listener that always raises, registered through add_value_callback by a
\* third consumer of the connector.
AddFaultyListener ==
    /\ mpc \notin {"exited"}
    /\ \A i \in DOMAIN value_callbacks : value_callbacks[i] # FaultyCb
    /\ value_callbacks' = add_value_callback(value_callbacks, FaultyCb)
    /\ UNCHANGED << clock, mainVars, opcVars, latest_values, note, lastEv, unk,
                    unityVars, db_enabled, dbVars, current_values, storVars,
                    workerVars, wjoin >>

\* ----------------------------------------- SubHandler.datachange_notification
\* lines 201-213 for a configured node: resolve, convert, replace the entry
datachange_notification(node_id, raw) ==
    /\ mpc # "exited"
    /\ subscription /\ opc_client /\ opcSession
    /\ ~note["sub"].active
    /\ \/ node_id = UnknownNodeId
       \/ \E i \in handles : nodes_to_monitor[i].id = node_id
    /\ LET idx == NodeInfoIdx(node_id)
       IN  IF idx # 0
           THEN LET name == nodes_to_monitor[idx].name
                    unit == nodes_to_monitor[idx].unit
                    value == safe_float(raw)
                IN  /\ latest_values' =
                          DictSet(latest_values, name, Sample(value, unit, isoformat(clock)))
                    /\ note' = [note EXCEPT !["sub"] =
                                  [active |-> TRUE, name |-> name, value |-> value,
                                   unit |-> unit, ts |-> 0, i |-> 0]]
                    /\ lastEv' = [lastEv EXCEPT ![name] =
                                  [seen |-> TRUE, again |-> lastEv[name].seen, raw |-> raw,
                                   at |-> clock, regs |-> Len(value_callbacks)]]
                    /\ unk' = NextUnk(unk, node_id, name)
           ELSE /\ unk' = NextUnk(unk, node_id, "")
                /\ UNCHANGED << latest_values, note, lastEv >>
    /\ UNCHANGED << clock, mainVars, opcVars, value_callbacks, unityVars,
                    db_enabled, dbVars, current_values, storVars, workerVars, wjoin >>

\* history: the workers whose cycle is under way when the cache or the mapping
\* changes
CyclePcs == {"iter", "exec", "in_exec"}
Disturbed(changed) ==
    [w \in Workers |->
        IF changed /\ wpc[w] \in CyclePcs THEN [hist[w] EXCEPT !.dirty = TRUE] ELSE hist[w]]

\* The same handler as one step: lines 201-217 with every listener called in
\* turn, for the threads whose view of it is the finished update only.
RECURSIVE CallListenersFrom(_, _, _, _)
CallListenersFrom(i, cv, ul, n) ==
    IF i > Len(value_callbacks)
    THEN [cv |-> cv, ul |-> ul]
    ELSE LET cb == value_callbacks[i]
         IN  CallListenersFrom(
                 NextListener(i, cb = FaultyCb),
                 IF cb = DbCb THEN db_update_callback(cv, n.name, n.value, n.unit, n.ts) ELSE cv,
                 IF cb = UnityCb THEN on_value_update(ul, n.name, n.value, n.unit, n.ts) ELSE ul,
                 n)

datachange_handled(node_id, raw) ==
    /\ mpc # "exited"
    /\ subscription /\ opc_client /\ opcSession
    /\ \A t \in Notifiers : ~note[t].active
    /\ \/ node_id = UnknownNodeId
       \/ \E i \in handles : nodes_to_monitor[i].id = node_id
    /\ LET idx == NodeInfoIdx(node_id)
       IN  IF idx # 0
           THEN LET name == nodes_to_monitor[idx].name
                    unit == nodes_to_monitor[idx].unit
                    value == safe_float(raw)
                    n == [active |-> TRUE, name |-> name, value |-> value,
                          unit |-> unit, ts |-> clock, i |-> 1]
                    r == CallListenersFrom(1, current_values, unity_latest, n)
                IN  /\ latest_values' =
                          DictSet(latest_values, name, Sample(value, unit, isoformat(clock)))
                    /\ lastEv' = [lastEv EXCEPT ![name] =
                                  [seen |-> TRUE, again |-> lastEv[name].seen, raw |-> raw,
                                   at |-> clock, regs |-> Len(value_callbacks)]]
                    /\ unk' = NextUnk(unk, node_id, name)
                    /\ current_values' = r.cv
                    /\ unity_latest' = r.ul
                    /\ hist' = Disturbed(r.cv # current_values)
           ELSE /\ unk' = NextUnk(unk, node_id, "")
                /\ UNCHANGED << latest_values, lastEv, current_values, unity_latest,
                                hist >>
    /\ UNCHANGED << clock, mainVars, opcVars, value_callbacks, note,
                    unity_running, unity_db, serving, req, db_enabled, dbVars, storVars,
                    wpc, wk,
                    wit, witlen, wbatch, wcur, wjoin >>

DataChangeHandled ==
    \E node_id \in NodeIds, raw \in RawVals : datachange_handled(node_id, raw)

\* an event for a configured node, and one for a node id that matches no tag
DataChange ==
    \E node_id \in KnownNodeIds, raw \in RawVals : datachange_notification(node_id, raw)

DataChangeUnknown == \E raw \in RawVals : datachange_notification(UnknownNodeId, raw)

\* The server drops the session of the running gateway (restart, network
\* cut, session timeout).  No code of the gateway runs on that: SubHandler has
\* datachange_notification only, main() sleeps in its loop (lines 132-133),
\* and connected (line 119) and client stay as connect() left them.
OpcSessionLost ==
    /\ mpc = "run"
    /\ opcSession
    /\ opcSession' = FALSE
    /\ UNCHANGED << clock, mainVars, opc_connected, opc_client, subscription, handles,
                    fanVars, unityVars, db_enabled, dbVars, current_values, storVars,
                    workerVars, wjoin >>

\* ------------------------------------------------- main(): OPC UA start-up
\* OpcUaConnector.disconnect: the subscription is dropped unless its clean-up
\* raises; the client is dropped and connected cleared whenever a client exists.
OpcDisconnect(cleanup_ok) ==
    /\ subscription' = IF subscription /\ cleanup_ok THEN FALSE ELSE subscription
    /\ opc_client' = FALSE
    /\ opcSession' = FALSE
    /\ opc_connected' = IF opc_client THEN FALSE ELSE opc_connected
    /\ UNCHANGED handles

\* main line 91: OpcUaConnector.connect() returns True, or fails, disconnects
\* and makes main return 1
MainOpcConnect ==
    /\ mpc = "opc_connect"
    /\ \/ /\ opc_client' = TRUE
          /\ opcSession' = TRUE
          /\ opc_connected' = TRUE
          /\ mpc' = "subscribe"
          /\ UNCHANGED << subscription, handles >>
       \/ /\ opc_client' = FALSE
          /\ opcSession' = FALSE
          /\ opc_connected' = FALSE
          /\ mpc' = "exited"
          /\ UNCHANGED << subscription, handles >>
    /\ UNCHANGED << clock, msi, mraw, mret, fanVars, unityVars, db_enabled, dbVars,
                    current_values, storVars, workerVars, wjoin >>

\* subscribe_to_nodes lines 148-157: the subscription is created, or the call
\* returns False and main disconnects and returns 1 (lines 96-99)
MainSubscribe ==
    /\ mpc = "subscribe"
    /\ \/ /\ subscription' = TRUE
          /\ handles' = {}
          /\ mpc' = "sub_node"
          /\ msi' = 1
          /\ UNCHANGED << opc_client, opcSession, opc_connected >>
       \/ /\ \E cleanup_ok \in BOOLEAN : OpcDisconnect(cleanup_ok)
          /\ mpc' = "exited"
          /\ UNCHANGED msi
    /\ UNCHANGED << clock, mraw, mret, fanVars, unityVars, db_enabled, dbVars,
                    current_values, storVars, workerVars, wjoin >>

\* lines 159-167 and 176-179: the node is subscribed and its value read; a
\* failure of either is logged and the loop goes on with the next node
MainSubNode ==
    /\ mpc = "sub_node"
    /\ \/ /\ handles' = handles \cup {msi}
          /\ \E raw \in RawVals : mraw' = raw
          /\ mpc' = "seed_write"
          /\ UNCHANGED msi
       \/ /\ \E subscribed \in BOOLEAN :
                handles' = IF subscribed THEN handles \cup {msi} ELSE handles
          /\ MainNextNode
          /\ UNCHANGED mraw
    /\ UNCHANGED << clock, mret, opc_connected, opc_client, opcSession, subscription,
                    fanVars,
                    unityVars, db_enabled, dbVars, current_values, storVars,
                    workerVars, wjoin >>

\* lines 167-175: the initial value is converted, stored and handed to
\* _notify_callbacks
MainSeedWrite ==
    /\ mpc = "seed_write"
    /\ LET name == nodes_to_monitor[msi].name
           unit == nodes_to_monitor[msi].unit
           value == safe_float(mraw)
       IN  /\ latest_values' =
                 DictSet(latest_values, name, Sample(value, unit, isoformat(clock)))
           /\ note' = [note EXCEPT !["main"] =
                         [active |-> TRUE, name |-> name, value |-> value,
                          unit |-> unit, ts |-> 0, i |-> 0]]
           /\ lastEv' = [lastEv EXCEPT ![name] = NoEv]
    /\ mpc' = "seed_notify"
    /\ UNCHANGED << clock, msi, mraw, mret, opcVars, value_callbacks, unk,
                    unityVars, db_enabled, dbVars, current_values, storVars,
                    workerVars, wjoin >>

\* ------------------------------------------------ DbConnector, any thread
\* Thread t runs connect() / disconnect() either as the main thread (0) or as
\* a persistence worker inside _try_reconnect.
pcOf(t) == IF t = 0 THEN mpc ELSE wpc[t]

Goto(t, p) ==
    IF t = 0
    THEN mpc' = p /\ UNCHANGED wpc
    ELSE wpc' = [wpc EXCEPT ![t] = p] /\ UNCHANGED mpc

is_alive(w) == wpc[w] \notin {"none", "dead"}

\* a call that waits on the network for an unbounded time
BlockingPcs == {"in_exec", "c_open", "c_load"}

\* a connection object no longer referenced can be reused; every start of the
\* worker makes a new Thread object
FreeConns ==
    {c \in 1 .. MaxConns :
        /\ c \notin connAlive \cup {conn, cursor}
        /\ \A t \in Threads : wcur[t] # c}
FreeWorkers == {w \in Workers : wpc[w] = "none"}
Lowest(S) == CHOOSE x \in S : \A y \in S : x <= y

\* where a thread goes on when connect() has returned (main lines 105-113;
\* _try_reconnect line 168 back in _logging_worker) or raised
AfterConnect(t, result) ==
    IF t = 0
    THEN CASE result = "true" -> "db_cb"
           [] result = "false" -> "unity_init"
           [] OTHER -> "exited"
    ELSE "sleep"

\* where a thread goes on when disconnect() has returned
AfterDisconnect(t) == IF t = 0 THEN mret ELSE "c_open"

\* connect() lines 62-71 and 80-83: a session is opened, or mariadb.Error
DbConnectOpen(t) ==
    /\ mpc # "exited"
    /\ pcOf(t) = "c_open"
    /\ IF dbUp
       THEN /\ FreeConns # {}
            /\ LET c == Lowest(FreeConns)
               IN  /\ conn' = c
                   /\ cursor' = c
                   /\ connAlive' = connAlive \cup {c}
            /\ db_connected' = TRUE
            /\ Goto(t, "c_load")
       ELSE /\ db_connected' = FALSE
            /\ Goto(t, AfterConnect(t, "false"))
            /\ UNCHANGED << conn, cursor, connAlive >>
    /\ UNCHANGED << clock, msi, mraw, mret, opcVars, fanVars, unityVars, db_enabled,
                    db_exists, opc_to_db_mapping, logging_active, logging_thread,
                    shutdown_event, current_values, dbUp, storedMapping,
                    eventLog, wk, wit, witlen, wbatch, wcur, hist, wjoin >>

\* _load_tag_mappings lines 85-95
LoadTagMappings(stored) == stored

DbConnectLoad(t) ==
    /\ mpc # "exited"
    /\ pcOf(t) = "c_load"
    /\ IF cursor = 0
       THEN /\ Goto(t, AfterConnect(t, "raised"))
            /\ UNCHANGED << opc_to_db_mapping, hist >>
       ELSE /\ opc_to_db_mapping' =
                  IF cursor \in connAlive THEN LoadTagMappings(storedMapping) ELSE NoMapping
            /\ hist' = Disturbed(opc_to_db_mapping' # opc_to_db_mapping)
            /\ Goto(t, "c_start")
    /\ UNCHANGED << clock, msi, mraw, mret, opcVars, fanVars, unityVars, db_enabled,
                    db_exists, conn, cursor, db_connected, logging_active, logging_thread,
                    shutdown_event, current_values, storVars, wk, wit, witlen, wbatch,
                    wcur, wjoin >>

\* _start_logging_thread lines 97-112, then connect() returns True
DbConnectStart(t) ==
    /\ mpc # "exited"
    /\ pcOf(t) = "c_start"
    /\ FreeWorkers # {}
    /\ LET w == Lowest(FreeWorkers)
       IN  /\ shutdown_event' = FALSE
           /\ logging_thread' = w
           /\ logging_active' = TRUE
           /\ IF t = 0
              THEN /\ mpc' = AfterConnect(t, "true")
                   /\ wpc' = [wpc EXCEPT ![w] = "while"]
              ELSE /\ wpc' = [wpc EXCEPT ![w] = "while", ![t] = AfterConnect(t, "true")]
                   /\ UNCHANGED mpc
           /\ wk' = [wk EXCEPT ![w] = 0]
           /\ wit' = [wit EXCEPT ![w] = 0]
           /\ witlen' = [witlen EXCEPT ![w] = 0]
           /\ wbatch' = [wbatch EXCEPT ![w] = << >>]
           /\ hist' = [hist EXCEPT ![w] = NoHist]
    /\ UNCHANGED << clock, msi, mraw, mret, opcVars, fanVars, unityVars, db_enabled,
                    db_exists, conn, cursor, db_connected, opc_to_db_mapping,
                    current_values, storVars, wcur, wjoin >>

\* disconnect() lines 176-180 up to the join: RuntimeError when the thread to
\* join is the calling thread itself
JoinsSelf(t) == logging_thread = t

DbDisconnectBegin(t) ==
    /\ mpc # "exited"
    /\ pcOf(t) = "d_begin"
    /\ hist' = [w \in Workers |->
                  LET h == IF logging_active /\ wpc[w] = "sleep" /\ hist[w].stop = -1
                           THEN [hist[w] EXCEPT !.stop = wk[w]] ELSE hist[w]
                  IN  IF w = t THEN [h EXCEPT !.reUp = dbUp] ELSE h]
    /\ IF logging_active
       THEN /\ shutdown_event' = TRUE
            /\ IF logging_thread # 0 /\ is_alive(logging_thread)
               THEN IF JoinsSelf(t)
                    THEN /\ Goto(t, "sleep")
                         /\ wk' = [wk EXCEPT ![t] = 0]
                         /\ UNCHANGED << logging_active, wjoin >>
                    ELSE /\ wjoin' = [wjoin EXCEPT ![t] =
                                        [w |-> logging_thread, st |-> "wait",
                                         from |-> wpc[logging_thread]]]
                         /\ Goto(t, "d_join")
                         /\ UNCHANGED << logging_active, wk >>
               ELSE /\ logging_active' = FALSE
                    /\ Goto(t, "d_close")
                    /\ UNCHANGED << wjoin, wk >>
       ELSE /\ Goto(t, "d_close")
            /\ UNCHANGED << shutdown_event, logging_active, wjoin, wk >>
    /\ UNCHANGED << clock, msi, mraw, mret, opcVars, fanVars, unityVars, db_enabled,
                    db_exists, conn, cursor, db_connected, opc_to_db_mapping,
                    logging_thread, current_values, storVars, wit, witlen, wbatch, wcur >>

\* join(timeout=5.0), line 179: returns when the thread has ended, or after
\* five seconds of a thread that is held up in a network call
JoinReturnsAtOnce(w) == TRUE

JoinMayReturn(w) == ~is_alive(w) \/ wpc[w] \in BlockingPcs

DbDisconnectJoin(t) ==
    /\ mpc # "exited"
    /\ pcOf(t) = "d_join"
    /\ JoinMayReturn(wjoin[t].w)
    /\ wjoin' = [wjoin EXCEPT ![t] =
                   [@ EXCEPT !.st = IF wpc[wjoin[t].w] \in BlockingPcs
                                    THEN "timeout" ELSE "ended"]]
    /\ logging_active' = FALSE
    /\ Goto(t, "d_close")
    /\ UNCHANGED << clock, msi, mraw, mret, opcVars, fanVars, unityVars, db_enabled,
                    db_exists, conn, cursor, db_connected, opc_to_db_mapping,
                    logging_thread, shutdown_event, current_values, storVars,
                    wk, wit, witlen, wbatch, wcur, hist >>

\* disconnect() lines 183-192 and the return
DbDisconnectClose(t) ==
    /\ mpc # "exited"
    /\ pcOf(t) = "d_close"
    /\ IF conn # 0
       THEN /\ connAlive' = connAlive \ {conn}
            /\ conn' = 0
            /\ cursor' = 0
            /\ db_connected' = FALSE
       ELSE UNCHANGED << connAlive, conn, cursor, db_connected >>
    /\ wjoin' = [wjoin EXCEPT ![t] = NoJoin]
    /\ Goto(t, AfterDisconnect(t))
    /\ UNCHANGED << clock, msi, mraw, mret, opcVars, fanVars, unityVars, db_enabled,
                    db_exists, opc_to_db_mapping, logging_active, logging_thread,
                    shutdown_event, current_values, dbUp, storedMapping,
                    eventLog, wk, wit, witlen, wbatch, wcur, hist >>

\* ------------------------------------------------- the persistence worker
\* line 116: while not self.shutdown_event.is_set()
WorkerWhile(w) ==
    /\ mpc # "exited"
    /\ wpc[w] = "while"
    /\ wpc' = [wpc EXCEPT ![w] = IF shutdown_event THEN "dead" ELSE "guard"]
    /\ hist' = [hist EXCEPT ![w].inserts = 0]
    /\ UNCHANGED << clock, mainVars, opcVars, fanVars, unityVars, db_enabled, dbVars,
                    current_values, storVars, wk, wit, witlen, wbatch, wcur, wjoin >>

\* lines 123-127: where the worker goes on when _log_current_values has
\* returned, the interval wait
AfterCycleNoWait == "guard"

AfterCycle == "sleep"

\* lines 118 and 131: a cycle runs only when connected with a non-empty cache;
\* lines 136-141: the batch starts empty and the dict iteration begins
WorkerGuard(w) ==
    /\ mpc # "exited"
    /\ wpc[w] = "guard"
    /\ IF db_connected /\ Len(current_values) > 0
       THEN /\ wpc' = [wpc EXCEPT ![w] = "iter"]
            /\ wit' = [wit EXCEPT ![w] = 1]
            /\ witlen' = [witlen EXCEPT ![w] = Len(current_values)]
            /\ wbatch' = [wbatch EXCEPT ![w] = << >>]
            /\ UNCHANGED wk
       ELSE /\ wpc' = [wpc EXCEPT ![w] = AfterCycle]
            /\ wk' = [wk EXCEPT ![w] = 0]
            /\ UNCHANGED << wit, witlen, wbatch >>
    /\ hist' = [hist EXCEPT ![w].dirty = FALSE,
                            ![w].snap = IF db_connected THEN current_values ELSE << >>]
    /\ UNCHANGED << clock, mainVars, opcVars, fanVars, unityVars, db_enabled, dbVars,
                    current_values, storVars, wcur, wjoin >>

\* lines 142-146: a tag with a column mapping adds its column and its value
BatchAdd(batch, mapping, entry) ==
    IF entry.k \in DOMAIN mapping
    THEN Append(batch, [f |-> mapping[entry.k], v |-> entry.v.value])
    ELSE batch

\* line 141, one step of the iteration over current_values.items(): the
\* iterator raises RuntimeError when the dict has changed size, line 148 ends
\* the cycle when only the timestamp column was collected
WorkerIter(w) ==
    /\ mpc # "exited"
    /\ wpc[w] = "iter"
    /\ IF Len(current_values) # witlen[w]
       THEN /\ wpc' = [wpc EXCEPT ![w] = AfterCycle]
            /\ wk' = [wk EXCEPT ![w] = 0]
            /\ UNCHANGED << wit, wbatch >>
       ELSE IF wit[w] > witlen[w]
       THEN /\ wpc' = [wpc EXCEPT ![w] = IF Len(wbatch[w]) = 0 THEN AfterCycle ELSE "exec"]
            /\ wk' = [wk EXCEPT ![w] = 0]
            /\ UNCHANGED << wit, wbatch >>
       ELSE /\ wbatch' = [wbatch EXCEPT ![w] =
                            BatchAdd(@, opc_to_db_mapping, current_values[wit[w]])]
            /\ wit' = [wit EXCEPT ![w] = @ + 1]
            /\ UNCHANGED << wpc, wk >>
    /\ hist' = [hist EXCEPT ![w].snap = IF wpc'[w] = "iter" THEN @ ELSE << >>]
    /\ UNCHANGED << clock, mainVars, opcVars, fanVars, unityVars, db_enabled, dbVars,
                    current_values, storVars, witlen, wcur, wjoin >>

\* line 153, the call: self.cursor.execute(query, values); AttributeError when
\* the cursor is None ends the cycle in the worker's except clause (line 120)
WorkerExec(w) ==
    /\ mpc # "exited"
    /\ wpc[w] = "exec"
    /\ IF cursor = 0
       THEN /\ wpc' = [wpc EXCEPT ![w] = AfterCycle]
            /\ UNCHANGED wcur
            /\ UNCHANGED hist
       ELSE /\ wpc' = [wpc EXCEPT ![w] = "in_exec"]
            /\ wcur' = [wcur EXCEPT ![w] = cursor]
            /\ hist' = [hist EXCEPT ![w].inserts = @ + 1]
    /\ UNCHANGED << clock, mainVars, opcVars, fanVars, unityVars, db_enabled, dbVars,
                    current_values, storVars, wk, wit, witlen, wbatch, wjoin >>

\* lines 153-160, the outcome: the row is inserted and committed, or
\* mariadb.Error leads to _try_reconnect, which begins with disconnect()
WorkerExecReturn(w) ==
    /\ mpc # "exited"
    /\ wpc[w] = "in_exec"
    /\ IF wcur[w] \in connAlive
       THEN /\ wpc' = [wpc EXCEPT ![w] = AfterCycle]
            /\ UNCHANGED hist
       ELSE /\ hist' = [hist EXCEPT ![w].failed = TRUE, ![w].reUp = FALSE]
            /\ wpc' = [wpc EXCEPT ![w] = "d_begin"]
    /\ wcur' = [wcur EXCEPT ![w] = 0]
    /\ UNCHANGED << clock, mainVars, opcVars, fanVars, unityVars, db_enabled, dbVars,
                    current_values, dbUp, connAlive, storedMapping, eventLog,
                    wk, wit, witlen, wbatch, wjoin >>

\* line 125: if self.shutdown_event.is_set(): break
StopRequested == shutdown_event

\* lines 124-127: one pass of the interval wait, which ends on the stop event
\* or after LogInterval sleeps of one second
WorkerSleep(w) ==
    /\ mpc # "exited"
    /\ wpc[w] = "sleep"
    /\ IF StopRequested
       THEN /\ wpc' = [wpc EXCEPT ![w] = "while"]
            /\ wk' = [wk EXCEPT ![w] = 0]
       ELSE IF wk[w] + 1 >= LogInterval
       THEN /\ wpc' = [wpc EXCEPT ![w] = "while"]
            /\ wk' = [wk EXCEPT ![w] = 0]
       ELSE /\ wk' = [wk EXCEPT ![w] = @ + 1]
            /\ UNCHANGED wpc
    /\ UNCHANGED << clock, mainVars, opcVars, fanVars, unityVars, db_enabled, dbVars,
                    current_values, storVars, wit, witlen, wbatch, wcur, hist, wjoin >>

\* ------------------------------------------------------------- the storage
StorageDown ==
    /\ mpc # "exited"
    /\ db_exists /\ dbUp
    /\ dbUp' = FALSE
    /\ connAlive' = {}
    /\ hist' = [w \in Workers |-> [hist[w] EXCEPT !.reUp = FALSE]]
    /\ UNCHANGED << clock, mainVars, opcVars, fanVars, unityVars, db_enabled, dbVars,
                    current_values, storedMapping, eventLog, wpc, wk, wit, witlen,
                    wbatch, wcur, wjoin >>

StorageUp ==
    /\ mpc # "exited"
    /\ ~dbUp
    /\ dbUp' = TRUE
    /\ UNCHANGED << clock, mainVars, opcVars, fanVars, unityVars, db_enabled, dbVars,
                    current_values, connAlive, storedMapping, eventLog,
                    workerVars, wjoin >>

\* table tagnames is edited while the gateway runs
StorageRemap ==
    /\ mpc # "exited"
    /\ db_exists
    /\ \E m \in Mappings \ {storedMapping} : storedMapping' = m
    /\ hist' = [w \in Workers |-> [hist[w] EXCEPT !.reUp = FALSE]]
    /\ UNCHANGED << clock, mainVars, opcVars, fanVars, unityVars, db_enabled, dbVars,
                    current_values, dbUp, connAlive, eventLog, wpc, wk, wit, witlen,
                    wbatch, wcur, wjoin >>

\* --------------------------------- main(): storage and HTTP start-up
\* lines 102-105: [DATABASE] enabled is read, the DbConnector is made
MainDbInit ==
    /\ mpc = "db_init"
    /\ \E enabled \in BOOLEAN :
          /\ db_enabled' = enabled
          /\ db_exists' = enabled
          /\ mpc' = IF enabled THEN "c_open" ELSE "unity_init"
    /\ UNCHANGED << clock, msi, mraw, mret, opcVars, fanVars, unityVars, conn, cursor,
                    db_connected, opc_to_db_mapping, logging_active, logging_thread,
                    shutdown_event, current_values, storVars, workerVars, wjoin >>

\* log_event lines 202-214: the record is written when connected and the
\* session is usable; mariadb.Error is logged
log_event(log, message) ==
    IF db_connected /\ cursor \in connAlive THEN log \cup {message} ELSE log

\* lines 107-111: the storage listener is registered, the start is recorded
MainDbCallback ==
    /\ mpc = "db_cb"
    /\ value_callbacks' = add_value_callback(value_callbacks, DbCb)
    /\ eventLog' = log_event(eventLog, "OPC-UA Gateway service started")
    /\ mpc' = "unity_init"
    /\ UNCHANGED << clock, msi, mraw, mret, opcVars, latest_values, note, lastEv, unk,
                    unityVars, db_enabled, dbVars, current_values, dbUp, connAlive,
                    storedMapping, workerVars, wjoin >>

\* lines 117-121
MainUnityInit ==
    /\ mpc = "unity_init"
    /\ unity_db' = (db_exists /\ db_connected)
    /\ mpc' = "unity_start"
    /\ UNCHANGED << clock, msi, mraw, mret, opcVars, fanVars, unity_latest,
                    unity_running, serving, req, db_enabled, dbVars, current_values, storVars,
                    workerVars, wjoin >>

\* UnityConnector.start lines 112-127 and main lines 124-129: the listener is
\* registered and the server thread started; when the server cannot be made,
\* start() stops, main disconnects and returns 1
MainUnityStart ==
    /\ mpc = "unity_start"
    /\ value_callbacks' = add_value_callback(value_callbacks, UnityCb)
    /\ \/ /\ serving' = TRUE
          /\ mpc' = "unity_serving"
          /\ UNCHANGED << mret, opcVars, unity_running >>
       \/ /\ unity_running' = FALSE
          /\ \E cleanup_ok \in BOOLEAN : OpcDisconnect(cleanup_ok)
          /\ IF db_exists /\ db_connected
             THEN mpc' = "d_begin" /\ mret' = "exited"
             ELSE mpc' = "exited" /\ UNCHANGED mret
          /\ UNCHANGED serving
    /\ UNCHANGED << clock, msi, mraw, latest_values, note, lastEv, unk, unity_latest,
                    unity_db, req, db_enabled, dbVars, current_values, storVars,
                    workerVars, wjoin >>

\* UnityConnector.start lines 129-132 and main line 131: running is set once
\* the server thread has been started, and main enters its loop
MainUnityRunning ==
    /\ mpc = "unity_serving"
    /\ unity_running' = TRUE
    /\ mpc' = "run"
    /\ UNCHANGED << clock, msi, mraw, mret, opcVars, fanVars, unity_latest, unity_db,
                    serving, req, db_enabled, dbVars, current_values, storVars,
                    workerVars, wjoin >>

\* ------------------------------------------------------------ shutdown
\* UnityConnector.stop lines 139-149: server.shutdown() returns when the
\* serve_forever loop has ended, which handles one request at a time and
\* finishes the one in progress first
ServerIdle == req.pc \in {"idle", "done"}

\* SIGINT / SIGTERM while main sleeps in its loop (lines 135-136): the handler
\* runs on the main thread, lines 27-31
MainSignal ==
    /\ mpc = "run"
    /\ ServerIdle
    /\ unity_running' = FALSE
    /\ serving' = FALSE
    /\ mpc' = "sh_opc"
    /\ UNCHANGED << clock, msi, mraw, mret, opcVars, fanVars, unity_latest, unity_db,
                    req, db_enabled, dbVars, current_values, storVars, workerVars,
                    wjoin >>

\* SIGINT / SIGTERM between the start of the server thread (line 127) and
\* running = True (line 129): the handler finds running False and leaves the
\* server serving (lines 30-31)
MainSignalStarting ==
    /\ mpc = "unity_serving"
    /\ mpc' = "se_opc"
    /\ UNCHANGED << clock, msi, mraw, mret, opcVars, fanVars, unityVars, db_enabled,
                    dbVars, current_values, storVars, workerVars, wjoin >>

\* where sys.exit(0), line 41, leads: into the finally block when the signal
\* came in main's loop, out of the process when it came inside start()
AfterHandler == IF mpc = "sh_opc" THEN "f_unity" ELSE "exited"

\* signal_handler lines 34-39
MainSignalOpc ==
    /\ mpc \in {"sh_opc", "se_opc"}
    /\ IF opc_connected
       THEN \E cleanup_ok \in BOOLEAN : OpcDisconnect(cleanup_ok)
       ELSE UNCHANGED opcVars
    /\ IF db_exists /\ db_connected
       THEN mpc' = "d_begin" /\ mret' = AfterHandler
       ELSE mpc' = AfterHandler /\ UNCHANGED mret
    /\ UNCHANGED << clock, msi, mraw, fanVars, unityVars, db_enabled, dbVars,
                    current_values, storVars, workerVars, wjoin >>

\* KeyboardInterrupt in the loop (line 137) leads straight to the finally block
MainKeyboardInterrupt ==
    /\ mpc = "run"
    /\ mpc' = "f_unity"
    /\ UNCHANGED << clock, msi, mraw, mret, opcVars, fanVars, unityVars, db_enabled,
                    dbVars, current_values, storVars, workerVars, wjoin >>

\* the finally block, lines 141-144; after the handler it is entered by the
\* SystemExit of sys.exit(0), line 41
MainFinally ==
    /\ mpc = "f_unity"
    /\ ServerIdle
    /\ unity_running' = FALSE
    /\ serving' = FALSE
    /\ \E cleanup_ok \in BOOLEAN : OpcDisconnect(cleanup_ok)
    /\ mpc' = "f_db"
    /\ UNCHANGED << clock, msi, mraw, mret, fanVars, unity_latest, unity_db, req,
                    db_enabled, dbVars, current_values, storVars, workerVars, wjoin >>

\* lines 145-148
MainFinallyDb ==
    /\ mpc = "f_db"
    /\ IF db_exists /\ db_connected
       THEN /\ eventLog' = log_event(eventLog, "OPC-UA Gateway service stopped")
            /\ mpc' = "d_begin"
            /\ mret' = "exited"
       ELSE /\ mpc' = "exited"
            /\ UNCHANGED << eventLog, mret >>
    /\ UNCHANGED << clock, msi, mraw, opcVars, fanVars, unityVars, db_enabled, dbVars,
                    current_values, dbUp, connAlive, storedMapping,
                    workerVars, wjoin >>

\* ------------------------------------------- the HTTP server thread
\* What the SELECT of get_field_history can return: rows (timestamp, value) of
\* one column, value not NULL, ordered by timestamp; the table outlives the
\* process, so its rows are not only those this run inserted.
RowSets ==
    { << >>,
      << [ts |-> 0, v |-> Float(2346)] >>,
      << [ts |-> 0, v |-> Float(2346)], [ts |-> 1, v |-> Float(100)] >> }

\* get_tag_history lines 247-255: the unit of the cached entry, "" without one,
\* and the rows as (value, unit, timestamp)
UnitCached(name) == IF Has(current_values, name) THEN Get(current_values, name).unit ELSE ""

get_tag_history(name, rows) ==
    [i \in DOMAIN rows |-> [value |-> rows[i].v, unit |-> UnitCached(name), ts |-> rows[i].ts]]

\* get_history lines 101-110: the response rows
HistoryBody(history) ==
    [i \in DOMAIN history |->
        Sample(history[i].value, history[i].unit, isoformat(history[i].ts))]

Answer(r, res) == [r EXCEPT !.pc = "done", !.res = res]

\* get_status lines 79-86, without server_time
get_status ==
    [opcua_connected |-> opc_connected,
     nodes_monitoring |-> Len(nodes_to_monitor),
     values_count |-> Len(unity_latest)]

\* get_history lines 89-92: 503 unless a connector is set and connected
HistRequest(name) ==
    /\ mpc # "exited"
    /\ serving
    /\ ServerIdle
    /\ req' = IF ~unity_db \/ ~db_connected
              THEN Answer([NoReq EXCEPT !.name = name], "unavailable")
              ELSE [NoReq EXCEPT !.pc = "tag", !.name = name]
    /\ UNCHANGED << clock, mainVars, opcVars, fanVars, unity_latest, unity_running,
                    unity_db, serving, db_enabled, dbVars, current_values, storVars,
                    workerVars, wjoin >>

\* get_tag_history lines 239-242: no column for the tag gives [], which
\* get_history answers with 404 (lines 98-99)
HistTag ==
    /\ mpc # "exited"
    /\ req.pc = "tag"
    /\ req' = IF req.name \in DOMAIN opc_to_db_mapping
              THEN [req EXCEPT !.pc = "field", !.field = opc_to_db_mapping[req.name]]
              ELSE Answer(req, "not_found")
    /\ UNCHANGED << clock, mainVars, opcVars, fanVars, unity_latest, unity_running,
                    unity_db, serving, db_enabled, dbVars, current_values, storVars,
                    workerVars, wjoin >>

\* get_field_history lines 218-219: [] when not connected
HistField ==
    /\ mpc # "exited"
    /\ req.pc = "field"
    /\ req' = IF db_connected THEN [req EXCEPT !.pc = "query"] ELSE Answer(req, "not_found")
    /\ UNCHANGED << clock, mainVars, opcVars, fanVars, unity_latest, unity_running,
                    unity_db, serving, db_enabled, dbVars, current_values, storVars,
                    workerVars, wjoin >>

\* line 230, the call self.cursor.execute(query, ...): AttributeError when the
\* cursor is None, which no except clause of the request catches
HistQuery ==
    /\ mpc # "exited"
    /\ req.pc = "query"
    /\ req' = IF cursor = 0
              THEN Answer(req, "error")
              ELSE [req EXCEPT !.pc = "in_query", !.cur = cursor]
    /\ UNCHANGED << clock, mainVars, opcVars, fanVars, unity_latest, unity_running,
                    unity_db, serving, db_enabled, dbVars, current_values, storVars,
                    workerVars, wjoin >>

\* the session the query runs on is shared with a worker's insert under way
SharedWithInsert(c) == \E w \in Workers : wpc[w] = "in_exec" /\ wcur[w] = c

\* lines 230-234 and get_history lines 97-110, the outcome: mariadb.Error from
\* execute or fetchall gives [] and 404; self.cursor read again at line 231 is
\* None (AttributeError) or another cursor, which has no result set
\* (mariadb.Error); otherwise the rows are formatted and sent, 404 without rows
HistQueryReturn ==
    /\ mpc # "exited"
    /\ req.pc = "in_query"
    /\ \/ /\ req.cur \in connAlive /\ cursor = req.cur
          /\ \E rows \in RowSets :
                req' = [Answer(req, IF Len(rows) = 0 THEN "not_found" ELSE "ok")
                            EXCEPT !.rows = rows,
                                   !.body = HistoryBody(get_tag_history(req.name, rows))]
       \/ /\ req.cur \in connAlive /\ cursor = 0
          /\ req' = Answer(req, "error")
       \/ /\ \/ req.cur \notin connAlive
             \/ cursor \notin {0, req.cur}
             \/ SharedWithInsert(req.cur)
          /\ req' = [Answer(req, "not_found") EXCEPT !.failed = TRUE]
    /\ UNCHANGED << clock, mainVars, opcVars, fanVars, unity_latest, unity_running,
                    unity_db, serving, db_enabled, dbVars, current_values, storVars,
                    workerVars, wjoin >>

\* ------------------------------------------------------ specifications
\* Start-up and fan-out: main() from its first line to its loop, the
\* notification thread with the events of the configured nodes, and the
\* listeners.
Next ==
    \/ Tick
    \/ \E t \in Notifiers : NotifyBegin(t)
    \/ \E t \in Notifiers : CallListener(t)
    \/ AddFaultyListener
    \/ DataChange
    \/ MainOpcConnect
    \/ MainSubscribe
    \/ MainSubNode
    \/ MainSeedWrite
    \/ MainDbInit
    \/ MainDbCallback
    \/ MainUnityInit
    \/ MainUnityStart
    \/ MainUnityRunning
    \/ \E t \in Threads : DbConnectOpen(t)
    \/ \E t \in Threads : DbConnectLoad(t)
    \/ \E t \in Threads : DbConnectStart(t)

Spec == Init /\ [][Next]_vars

\* The gateway once main() has reached its loop with storage connected: both
\* tags seeded, both listeners registered, the first worker started.
Seeded(raw1, raw2) ==
    << [k |-> "Temp1", v |-> Sample(safe_float(raw1), "C", isoformat(0))],
       [k |-> "Flow", v |-> Sample(safe_float(raw2), "", isoformat(0))] >>

InitRunning ==
    /\ clock = 0
    /\ mpc = "run"
    /\ msi = 0
    /\ mraw = Text
    /\ mret = ""
    /\ opc_connected = TRUE
    /\ opc_client = TRUE
    /\ opcSession = TRUE
    /\ subscription = TRUE
    /\ handles = {1, 2}
    /\ latest_values = Seeded(Num(23456), mraw)
    /\ value_callbacks = << DbCb, UnityCb >>
    /\ note = [t \in Notifiers |-> NoNote]
    /\ unity_latest = << >>
    /\ unity_running = TRUE
    /\ unity_db = TRUE
    /\ serving = TRUE
    /\ req = NoReq
    /\ unk = NoUnk
    /\ db_enabled = TRUE
    /\ db_exists = TRUE
    /\ conn = 1
    /\ cursor = 1
    /\ db_connected = TRUE
    /\ storedMapping \in Mappings
    /\ opc_to_db_mapping = storedMapping
    /\ current_values = << >>
    /\ logging_active = TRUE
    /\ logging_thread = 1
    /\ shutdown_event = FALSE
    /\ dbUp = TRUE
    /\ connAlive = {1}
    /\ eventLog = {"OPC-UA Gateway service started"}
    /\ wpc = [w \in Workers |-> IF w = 1 THEN "while" ELSE "none"]
    /\ wk = [w \in Workers |-> 0]
    /\ wit = [w \in Workers |-> 0]
    /\ witlen = [w \in Workers |-> 0]
    /\ wbatch = [w \in Workers |-> << >>]
    /\ wcur = [t \in Threads |-> 0]
    /\ wjoin = [t \in Threads |-> NoJoin]
    /\ lastEv = [n \in TagNames |-> NoEv]
    /\ hist = [w \in Workers |-> NoHist]

\* The running gateway: data changes, the persistence worker, the storage
\* going away and coming back.
NextPersist ==
    \/ DataChangeHandled
    \/ \E t \in Threads : DbDisconnectBegin(t)
    \/ \E w \in Workers : WorkerWhile(w)
    \/ \E w \in Workers : WorkerGuard(w)
    \/ \E w \in Workers : WorkerIter(w)
    \/ \E w \in Workers : WorkerExec(w)
    \/ \E w \in Workers : WorkerExecReturn(w)
    \/ \E w \in Workers : WorkerSleep(w)
    \/ StorageDown
    \/ StorageUp
    \/ StorageRemap

SpecPersist == InitRunning /\ [][NextPersist]_vars

\* The running gateway with an update of each tag handled, at the moment
\* shutdown can begin.
Cached(t) ==
    << [k |-> "Temp1", v |-> Sample(safe_float(Num(23456)), "C", t)],
       [k |-> "Flow", v |-> Sample(safe_float(Text), "", t)] >>

InitCached ==
    /\ clock = 0
    /\ mpc = "run"
    /\ msi = 0
    /\ mraw = Text
    /\ mret = ""
    /\ opc_connected = TRUE
    /\ opc_client = TRUE
    /\ opcSession = TRUE
    /\ subscription = TRUE
    /\ handles = {1, 2}
    /\ latest_values = Cached(isoformat(0))
    /\ value_callbacks = << DbCb, UnityCb >>
    /\ note = [t \in Notifiers |-> NoNote]
    /\ unity_latest = Cached(isoformat(0))
    /\ unity_running = TRUE
    /\ unity_db = TRUE
    /\ serving = TRUE
    /\ req = NoReq
    /\ unk = NoUnk
    /\ db_enabled = TRUE
    /\ db_exists = TRUE
    /\ conn = 1
    /\ cursor = 1
    /\ db_connected = TRUE
    /\ storedMapping \in Mappings
    /\ opc_to_db_mapping = storedMapping
    /\ current_values = Cached(0)
    /\ logging_active = TRUE
    /\ logging_thread = 1
    /\ shutdown_event = FALSE
    /\ dbUp = TRUE
    /\ connAlive = {1}
    /\ eventLog = {"OPC-UA Gateway service started"}
    /\ wpc = [w \in Workers |-> IF w = 1 THEN "while" ELSE "none"]
    /\ wk = [w \in Workers |-> 0]
    /\ wit = [w \in Workers |-> 0]
    /\ witlen = [w \in Workers |-> 0]
    /\ wbatch = [w \in Workers |-> << >>]
    /\ wcur = [t \in Threads |-> 0]
    /\ wjoin = [t \in Threads |-> NoJoin]
    /\ lastEv = [n \in TagNames |->
                   [seen |-> TRUE, again |-> FALSE,
                    raw |-> IF n = "Temp1" THEN Num(23456) ELSE Text,
                    at |-> 0, regs |-> 2]]
    /\ hist = [w \in Workers |-> NoHist]

\* Shutdown of the running gateway with the storage reachable: the signal
\* handler and the finally block of main(), the worker, and connect() /
\* disconnect() on either thread.
NextShutdown ==
    \/ MainSignal
    \/ MainSignalOpc
    \/ MainKeyboardInterrupt
    \/ MainFinally
    \/ MainFinallyDb
    \/ \E t \in Threads : DbConnectOpen(t)
    \/ \E t \in Threads : DbConnectLoad(t)
    \/ \E t \in Threads : DbConnectStart(t)
    \/ \E t \in Threads : DbDisconnectBegin(t)
    \/ \E t \in Threads : DbDisconnectJoin(t)
    \/ \E t \in Threads : DbDisconnectClose(t)
    \/ \E w \in Workers : WorkerWhile(w)
    \/ \E w \in Workers : WorkerGuard(w)
    \/ \E w \in Workers : WorkerIter(w)
    \/ \E w \in Workers : WorkerExec(w)
    \/ \E w \in Workers : WorkerExecReturn(w)
    \/ \E w \in Workers : WorkerSleep(w)

SpecShutdown == InitCached /\ [][NextShutdown]_vars

\* Shutdown after a signal, at the storage test of the finally block (line
\* 145): the handler's disconnect() gave up its join on worker 1, whose insert
\* then failed on the closed session and whose _try_reconnect connected again
\* and started worker 2; the storage server has just gone away.
InitAbandoned ==
    /\ clock = 0
    /\ mpc = "f_db"
    /\ msi = 0
    /\ mraw = Text
    /\ mret = "f_unity"
    /\ opc_connected = FALSE
    /\ opc_client = FALSE
    /\ opcSession = FALSE
    /\ subscription = FALSE
    /\ handles = {1, 2}
    /\ latest_values = Cached(isoformat(0))
    /\ value_callbacks = << DbCb, UnityCb >>
    /\ note = [t \in Notifiers |-> NoNote]
    /\ unity_latest = Cached(isoformat(0))
    /\ unity_running = FALSE
    /\ unity_db = TRUE
    /\ serving = FALSE
    /\ req = NoReq
    /\ unk = NoUnk
    /\ db_enabled = TRUE
    /\ db_exists = TRUE
    /\ conn = 1
    /\ cursor = 1
    /\ db_connected = TRUE
    /\ storedMapping = MappingA
    /\ opc_to_db_mapping = storedMapping
    /\ current_values = Cached(0)
    /\ logging_active = TRUE
    /\ logging_thread = 2
    /\ shutdown_event = FALSE
    /\ dbUp = FALSE
    /\ connAlive = {}
    /\ eventLog = {"OPC-UA Gateway service started"}
    /\ wpc = [w \in Workers |->
                IF w = 1 THEN "sleep" ELSE IF w = 2 THEN "while" ELSE "none"]
    /\ wk = [w \in Workers |-> 0]
    /\ wit = [w \in Workers |-> IF w = 1 THEN 3 ELSE 0]
    /\ witlen = [w \in Workers |-> IF w = 1 THEN 2 ELSE 0]
    /\ wbatch = [w \in Workers |->
                   IF w = 1 THEN << [f |-> "temp_1", v |-> Float(2346)] >> ELSE << >>]
    /\ wcur = [t \in Threads |-> 0]
    /\ wjoin = [t \in Threads |-> NoJoin]
    /\ lastEv = [n \in TagNames |->
                   [seen |-> TRUE, again |-> FALSE,
                    raw |-> IF n = "Temp1" THEN Num(23456) ELSE Text,
                    at |-> 0, regs |-> 2]]
    /\ hist = [w \in Workers |->
                 IF w = 1
                 THEN [NoHist EXCEPT !.failed = TRUE, !.inserts = 1]
                 ELSE NoHist]

\* The rest of that shutdown, with the storage coming back.
NextAbandoned ==
    \/ MainFinallyDb
    \/ \E t \in Threads : DbConnectOpen(t)
    \/ \E t \in Threads : DbConnectLoad(t)
    \/ \E t \in Threads : DbConnectStart(t)
    \/ \E t \in Threads : DbDisconnectBegin(t)
    \/ \E t \in Threads : DbDisconnectJoin(t)
    \/ \E t \in Threads : DbDisconnectClose(t)
    \/ \E w \in Workers : WorkerWhile(w)
    \/ \E w \in Workers : WorkerGuard(w)
    \/ \E w \in Workers : WorkerIter(w)
    \/ \E w \in Workers : WorkerExec(w)
    \/ \E w \in Workers : WorkerExecReturn(w)
    \/ \E w \in Workers : WorkerSleep(w)
    \/ StorageUp

SpecAbandoned == InitAbandoned /\ [][NextAbandoned]_vars

\* The running gateway's persistence worker against a storage that goes away
\* and comes back; the worker thread is scheduled again and again, the storage
\* is under no obligation.
NextOutage ==
    \/ DataChangeHandled
    \/ \E t \in Threads : DbDisconnectBegin(t)
    \/ \E w \in Workers : WorkerWhile(w)
    \/ \E w \in Workers : WorkerGuard(w)
    \/ \E w \in Workers : WorkerIter(w)
    \/ \E w \in Workers : WorkerExec(w)
    \/ \E w \in Workers : WorkerExecReturn(w)
    \/ \E w \in Workers : WorkerSleep(w)
    \/ StorageDown
    \/ StorageUp

WorkerStep ==
    \/ \E t \in Threads : DbDisconnectBegin(t)
    \/ \E w \in Workers : WorkerWhile(w)
    \/ \E w \in Workers : WorkerGuard(w)
    \/ \E w \in Workers : WorkerIter(w)
    \/ \E w \in Workers : WorkerExec(w)
    \/ \E w \in Workers : WorkerExecReturn(w)
    \/ \E w \in Workers : WorkerSleep(w)

SpecOutageFair == InitCached /\ [][NextOutage]_vars /\ WF_vars(WorkerStep)

\* The two workers of that shutdown before the main thread goes on, with the
\* storage coming back and table tagnames edited.
NextTwoWorkers ==
    \/ \E t \in Threads : DbConnectOpen(t)
    \/ \E t \in Threads : DbConnectLoad(t)
    \/ \E t \in Threads : DbConnectStart(t)
    \/ \E t \in Threads : DbDisconnectBegin(t)
    \/ \E t \in Threads : DbDisconnectJoin(t)
    \/ \E t \in Threads : DbDisconnectClose(t)
    \/ \E w \in Workers : WorkerWhile(w)
    \/ \E w \in Workers : WorkerGuard(w)
    \/ \E w \in Workers : WorkerIter(w)
    \/ \E w \in Workers : WorkerExec(w)
    \/ \E w \in Workers : WorkerExecReturn(w)
    \/ \E w \in Workers : WorkerSleep(w)
    \/ StorageUp
    \/ StorageRemap

SpecTwoWorkers == InitAbandoned /\ [][NextTwoWorkers]_vars

\* The running gateway's notification thread alone: events for the configured
\* nodes and for an unknown node, delivered listener by listener.
NextFanout ==
    \/ Tick
    \/ DataChange
    \/ DataChangeUnknown
    \/ \E t \in Notifiers : NotifyBegin(t)
    \/ \E t \in Notifiers : CallListener(t)
    \/ AddFaultyListener

SpecFanout == InitRunning /\ [][NextFanout]_vars

\* The running gateway and its field session: events are delivered while the
\* session lives, the server may drop the session at any time.  The
\* notification thread is scheduled again and again; the server is under no
\* obligation.
NextField ==
    \/ Tick
    \/ DataChange
    \/ \E t \in Notifiers : NotifyBegin(t)
    \/ \E t \in Notifiers : CallListener(t)
    \/ OpcSessionLost

NotifierStep ==
    \/ \E t \in Notifiers : NotifyBegin(t)
    \/ \E t \in Notifiers : CallListener(t)

SpecFieldFair == InitRunning /\ [][NextField]_vars /\ WF_vars(NotifierStep)

\* The gateway inside UnityConnector.start(), the server thread just started
\* (line 127) and running not yet set: storage connected, an update of each
\* tag handled.
InitServing ==
    /\ clock = 0
    /\ mpc = "unity_serving"
    /\ msi = 0
    /\ mraw = Text
    /\ mret = ""
    /\ opc_connected = TRUE
    /\ opc_client = TRUE
    /\ opcSession = TRUE
    /\ subscription = TRUE
    /\ handles = {1, 2}
    /\ latest_values = Cached(isoformat(0))
    /\ value_callbacks = << DbCb, UnityCb >>
    /\ note = [t \in Notifiers |-> NoNote]
    /\ unity_latest = Cached(isoformat(0))
    /\ unity_running = FALSE
    /\ unity_db = TRUE
    /\ serving = TRUE
    /\ req = NoReq
    /\ unk = NoUnk
    /\ db_enabled = TRUE
    /\ db_exists = TRUE
    /\ conn = 1
    /\ cursor = 1
    /\ db_connected = TRUE
    /\ storedMapping = MappingA
    /\ opc_to_db_mapping = storedMapping
    /\ current_values = Cached(0)
    /\ logging_active = TRUE
    /\ logging_thread = 1
    /\ shutdown_event = FALSE
    /\ dbUp = TRUE
    /\ connAlive = {1}
    /\ eventLog = {"OPC-UA Gateway service started"}
    /\ wpc = [w \in Workers |-> IF w = 1 THEN "while" ELSE "none"]
    /\ wk = [w \in Workers |-> 0]
    /\ wit = [w \in Workers |-> 0]
    /\ witlen = [w \in Workers |-> 0]
    /\ wbatch = [w \in Workers |-> << >>]
    /\ wcur = [t \in Threads |-> 0]
    /\ wjoin = [t \in Threads |-> NoJoin]
    /\ lastEv = [n \in TagNames |->
                   [seen |-> TRUE, again |-> FALSE,
                    raw |-> IF n = "Temp1" THEN Num(23456) ELSE Text,
                    at |-> 0, regs |-> 2]]
    /\ hist = [w \in Workers |-> NoHist]

\* The HTTP surface from then on: history requests against the worker, a
\* storage outage and a shutdown on either path.
NextHistory ==
    \/ MainUnityRunning
    \/ MainSignalStarting
    \/ MainSignal
    \/ MainSignalOpc
    \/ MainKeyboardInterrupt
    \/ MainFinally
    \/ MainFinallyDb
    \/ \E t \in Threads : DbConnectOpen(t)
    \/ \E t \in Threads : DbConnectLoad(t)
    \/ \E t \in Threads : DbConnectStart(t)
    \/ \E t \in Threads : DbDisconnectBegin(t)
    \/ \E t \in Threads : DbDisconnectJoin(t)
    \/ \E t \in Threads : DbDisconnectClose(t)
    \/ \E w \in Workers : WorkerWhile(w)
    \/ \E w \in Workers : WorkerGuard(w)
    \/ \E w \in Workers : WorkerIter(w)
    \/ \E w \in Workers : WorkerExec(w)
    \/ \E w \in Workers : WorkerExecReturn(w)
    \/ \E w \in Workers : WorkerSleep(w)
    \/ StorageDown
    \/ \E name \in TagNames : HistRequest(name)
    \/ HistTag
    \/ HistField
    \/ HistQuery
    \/ HistQueryReturn

SpecHistory == InitServing /\ [][NextHistory]_vars

\* -------------------------------------------------------------- properties
\* the listener cb was registered when the last event for the tag was delivered
RegisteredAtDelivery(name, cb) ==
    \E j \in 1 .. lastEv[name].regs : value_callbacks[j] = cb

\* the value and unit the last event for the tag stands for
EventValue(name) == safe_float(lastEv[name].raw)
EventSample(name) == Sample(EventValue(name), UnitOf(name), isoformat(lastEv[name].at))

\* the cache d holds the last event's value and unit for the tag, stamped no
\* earlier than the event's delivery
HoldsEvent(d, name, stamps) ==
    /\ Has(d, name)
    /\ Get(d, name).value = EventValue(name)
    /\ Get(d, name).unit = UnitOf(name)
    /\ Get(d, name).timestamp \in stamps

StampsSince(name) == lastEv[name].at .. clock
IsoStampsSince(name) == {isoformat(t) : t \in StampsSince(name)}

FaultyAt ==
    IF \E i \in DOMAIN value_callbacks : value_callbacks[i] = FaultyCb
    THEN CHOOSE i \in DOMAIN value_callbacks : value_callbacks[i] = FaultyCb
    ELSE 0

\* the listener cb was registered behind the raising listener at delivery
CalledAfterFaulty(name, cb) ==
    /\ FaultyAt # 0
    /\ \E j \in (FaultyAt + 1) .. lastEv[name].regs : value_callbacks[j] = cb

\* C2: when a listener raises during a notification, the cache write of that
\* notification stays in latest_values and every listener registered behind
\* the raising one has still received the same (name, value, unit, timestamp).
C2_ListenerIsolation ==
    ~note["sub"].active =>
        \A name \in TagNames :
            (lastEv[name].seen /\ FaultyAt # 0 /\ FaultyAt <= lastEv[name].regs) =>
                /\ Has(latest_values, name)
                /\ Get(latest_values, name) = EventSample(name)
                /\ CalledAfterFaulty(name, UnityCb) =>
                       HoldsEvent(unity_latest, name, IsoStampsSince(name))
                /\ (CalledAfterFaulty(name, DbCb) /\ db_connected) =>
                       HoldsEvent(current_values, name, StampsSince(name))
                /\ (CalledAfterFaulty(name, UnityCb) /\ CalledAfterFaulty(name, DbCb)
                        /\ db_connected) =>
                       Get(unity_latest, name).timestamp =
                           isoformat(Get(current_values, name).timestamp)

\* the raising listener was registered first, the storage and HTTP listeners
\* behind it, and an event for Temp1 has reached both
C2_Witness ==
    /\ ~note["sub"].active
    /\ value_callbacks = << FaultyCb, DbCb, UnityCb >>
    /\ lastEv["Temp1"].seen /\ lastEv["Temp1"].regs = Len(value_callbacks)
    /\ lastEv["Temp1"].raw = Num(23456)
    /\ Get(latest_values, "Temp1") = EventSample("Temp1")
    /\ Has(unity_latest, "Temp1") /\ Get(unity_latest, "Temp1").value = Float(2346)
    /\ Has(current_values, "Temp1") /\ Get(current_values, "Temp1").value = Float(2346)

\* the entry of the tag in latest_values is the one its initial read stored
SeedHeld(name) == Has(latest_values, name) /\ ~lastEv[name].seen

\* C5: once main() has reached its loop, every tag whose initial read was
\* stored is available to the consumers, the HTTP cache and (when storage is
\* connected) the storage cache, without any data-change event for it.
C5_SeedReachesConsumers ==
    (mpc = "run" /\ ~note["sub"].active) =>
        \A name \in TagNames :
            SeedHeld(name) =>
                /\ Has(unity_latest, name)
                /\ (db_exists /\ db_connected) => Has(current_values, name)

\* C3: a worker whose insert failed with a storage error stays alive: with no
\* stop requested by anyone else it never ends.
C3_WorkerSurvivesInsertFailure ==
    \A w \in Workers : hist[w].failed => wpc[w] # "dead"

\* the positions of a thread inside _try_reconnect
ReconnectPcs == {"d_begin", "d_join", "d_close", "c_open", "c_load", "c_start"}

\* C4: when _try_reconnect has run after a failed insert with the storage
\* reachable throughout, the connector holds a fresh usable session and the
\* mapping loaded from table tagnames.
C4_ReconnectReloadsMapping ==
    \A w \in Workers :
        (hist[w].failed /\ hist[w].reUp /\ wpc[w] \notin ReconnectPcs) =>
            /\ db_connected
            /\ cursor \in connAlive
            /\ opc_to_db_mapping = storedMapping

\* the insert a worker is executing: its statement is under way on the cursor
Inserting(w) == wpc[w] = "in_exec"

\* C6: no insert is executed by a cycle that read no non-absent value for any
\* mapped tag; an executing insert carries at least one non-absent value.
C6_NoInsertWithoutValue ==
    \A w \in Workers :
        Inserting(w) => \E i \in DOMAIN wbatch[w] : wbatch[w][i].v # None

\* the columns of the cached tags that have a mapping and a non-absent value
ColumnsWithValue ==
    {opc_to_db_mapping[k] :
        k \in {n \in Keys(current_values) \cap DOMAIN opc_to_db_mapping :
                  Get(current_values, n).value # None}}

\* C7: an executing insert names, besides the timestamp, exactly the columns
\* of the cached tags with a mapping and a non-absent value, and no absent
\* value.
C7_InsertOnlyNonAbsent ==
    \A w \in Workers :
        Inserting(w) =>
            /\ \A i \in DOMAIN wbatch[w] : wbatch[w][i].v # None
            /\ ~hist[w].dirty =>
                   {wbatch[w][i].f : i \in DOMAIN wbatch[w]} = ColumnsWithValue

\* C8: a worker issues at most one insert between two interval waits, however
\* many updates the cache took meanwhile, and the insert carries, column by
\* column, the value the cache held when the cycle read it.
C8_OneInsertPerTick ==
    \A w \in Workers :
        /\ hist[w].inserts <= 1
        /\ (Inserting(w) /\ ~hist[w].dirty) =>
               \A i \in DOMAIN wbatch[w] :
                   \E k \in Keys(current_values) \cap DOMAIN opc_to_db_mapping :
                       /\ opc_to_db_mapping[k] = wbatch[w][i].f
                       /\ Get(current_values, k).value = wbatch[w][i].v

\* the cache took two updates of Temp1 and the worker's one insert of the tick
\* carries the later value
C8_Witness ==
    /\ Inserting(1)
    /\ hist[1].inserts = 1 /\ ~hist[1].dirty /\ ~hist[1].failed
    /\ lastEv["Temp1"].again /\ lastEv["Temp1"].raw = Num(23456)
    /\ \E i \in DOMAIN wbatch[1] :
           wbatch[1][i] = [f |-> opc_to_db_mapping["Temp1"], v |-> Float(2346)]

InCycle(w) == wpc[w] \in CyclePcs \cup ReconnectPcs

\* C10 as stated: while the main thread's disconnect() closes the session and
\* clears conn / cursor, no persistence cycle is executing.
C10_DisconnectWaitsForCycle ==
    mpc = "d_close" => \A w \in Workers : ~InCycle(w)

\* C10, amended: when the join in the main thread's disconnect() returned
\* because the worker thread ended, that worker has no cycle under way while
\* the session is closed and conn / cursor are cleared.
C10_WaitsUnlessJoinTimesOut ==
    (mpc = "d_close" /\ wjoin[0].st = "ended") =>
        /\ ~is_alive(wjoin[0].w)
        /\ ~InCycle(wjoin[0].w)

\* the stop request came while the worker was inside a cycle, the join waited
\* for the thread to end and the session is about to be closed
C10_Witness ==
    /\ mpc = "d_close" /\ wjoin[0].st = "ended"
    /\ wjoin[0].from = "in_exec"
    /\ wpc[wjoin[0].w] = "dead"

\* the main thread is past its loop: the handler or the finally block runs
ShuttingDown == mpc # "run"

\* the persistence worker has been told to stop or has been stopped
WorkerStopAsked == shutdown_event \/ ~logging_active

\* C11: in every state of a shutdown the teardown steps done so far respect
\* the order HTTP server, persistence worker, OPC UA session, storage session:
\* the worker is asked to stop only with the HTTP server stopped, the OPC UA
\* session is down only with the worker asked to stop, and the storage session
\* is closed only with the OPC UA session down.
C11_TeardownOrder ==
    ShuttingDown =>
        /\ WorkerStopAsked => ~unity_running
        /\ ~opc_client => WorkerStopAsked
        /\ conn = 0 => ~opc_client

\* C12: a shutdown that began with the storage connected and reachable has
\* written the 'service stopped' record to event_log when the process exits
\* (with the storage reachable throughout, an attempted record is a written one).
C12_StopRecordWritten ==
    mpc = "exited" => "OPC-UA Gateway service stopped" \in eventLog

\* the rows of a response carry non-decreasing timestamps
OrderedByTimestamp(body) ==
    \A i, j \in DOMAIN body : i < j => body[i].timestamp[2] <= body[j].timestamp[2]

\* C13: an answered history request says 'not found' only for a tag without a
\* column mapping or a query that ran and returned no rows, never for a query
\* that failed in the storage; a request that found the storage connected and
\* rows in the window returns them as (value, unit, timestamp) ordered by
\* timestamp; a request that found the storage not connected says 'unavailable'.
C13_HistoryAnswers ==
    req.pc = "done" =>
        /\ req.res = "not_found" =>
               \/ req.field = ""
               \/ req.cur # 0 /\ ~req.failed /\ req.rows = << >>
        /\ req.failed => req.res # "not_found"
        /\ req.res = "ok" =>
               /\ req.rows # << >>
               /\ Len(req.body) = Len(req.rows)
               /\ \A i \in DOMAIN req.rows :
                      req.body[i] = Sample(req.rows[i].v, UnitOf(req.name),
                                           isoformat(req.rows[i].ts))
               /\ OrderedByTimestamp(req.body)
        /\ req.res = "unavailable" => req.field = "" /\ req.cur = 0

\* C14: no history request ends in an unhandled failure.
C14_HistoryNeverUnhandled ==
    req.pc = "done" => req.res \in {"unavailable", "not_found", "ok"}

\* the entry a reader finds for a tag in a cache, None without one
EntryOf(d, name) == IF Has(d, name) THEN Get(d, name) ELSE None

\* the notification thread's listener call under way is for the tag
CallFor(name) == note["sub"].active /\ note["sub"].i >= 1 /\ note["sub"].name = name

\* C15: every step that changes the entry of a tag in one of the three caches
\* puts a whole entry in its place, value, unit and timestamp all from the one
\* event being handled: in latest_values the event delivered by that step, in
\* the HTTP and the storage cache the event whose listener call is under way.
C15_WholeEntryReplaced ==
    [][\A name \in TagNames :
          /\ EntryOf(latest_values', name) # EntryOf(latest_values, name) =>
                /\ lastEv'[name].seen /\ lastEv'[name].at = clock
                /\ EntryOf(latest_values', name) =
                      Sample(safe_float(lastEv'[name].raw), UnitOf(name), isoformat(clock))
          /\ EntryOf(unity_latest', name) # EntryOf(unity_latest, name) =>
                /\ CallFor(name)
                /\ EntryOf(unity_latest', name) =
                      Sample(safe_float(lastEv[name].raw), UnitOf(name),
                             isoformat(note["sub"].ts))
          /\ EntryOf(current_values', name) # EntryOf(current_values, name) =>
                /\ CallFor(name)
                /\ EntryOf(current_values', name) =
                      Sample(safe_float(lastEv[name].raw), UnitOf(name), note["sub"].ts)
      ]_vars

\* a later event for Temp1, with another payload and at a later time, has
\* replaced the entries an earlier event left in all three caches
C15_Witness ==
    /\ ~note["sub"].active
    /\ lastEv["Temp1"].again /\ lastEv["Temp1"].at = 1 /\ lastEv["Temp1"].raw = Text
    /\ EntryOf(latest_values, "Temp1") = Sample(None, "C", isoformat(1))
    /\ EntryOf(unity_latest, "Temp1") = Sample(None, "C", isoformat(1))
    /\ EntryOf(current_values, "Temp1") = Sample(None, "C", 1)

\* the step handles an event for an unknown node id
Dropping == unk'.st = "dropped" /\ unk.st # "dropped"

\* C16: the step that handles an event for a node id matching no configured
\* tag changes no cache, starts no listener call and leaves the subscription
\* and the handler ready for the next event; and the event for a configured
\* tag that follows it is handled as ever: once the notification thread is
\* through, latest_values and the caches of the listeners registered at
\* delivery hold its tuple.
C16_UnknownNodeDropped ==
    /\ [][Dropping =>
            UNCHANGED << latest_values, unity_latest, current_values, note, lastEv,
                         value_callbacks, opcVars >>]_vars
    /\ []((unk.st = "after" /\ ~note["sub"].active) =>
            /\ lastEv[unk.name].seen
            /\ EntryOf(latest_values, unk.name) = EventSample(unk.name)
            /\ RegisteredAtDelivery(unk.name, UnityCb) =>
                   HoldsEvent(unity_latest, unk.name, IsoStampsSince(unk.name))
            /\ (RegisteredAtDelivery(unk.name, DbCb) /\ db_connected) =>
                   HoldsEvent(current_values, unk.name, StampsSince(unk.name)))

\* an event for the unknown node was dropped with the caches filled, and the
\* event for Flow that followed it has reached both listeners
C16_Witness ==
    /\ unk = [st |-> "after", name |-> "Flow"]
    /\ ~note["sub"].active
    /\ lastEv["Flow"].raw = Num(23456) /\ lastEv["Flow"].regs = 2
    /\ Has(unity_latest, "Temp1")
    /\ EntryOf(unity_latest, "Flow") = Sample(Float(2346), "", isoformat(lastEv["Flow"].at))
    /\ EntryOf(current_values, "Flow") = Sample(Float(2346), "", lastEv["Flow"].at)

\* the last event for the tag carried a payload that is no number
TextEvent(name) == lastEv[name].seen /\ lastEv[name].raw.kind = "text"

\* C17: an event with a non-numeric payload ends with the tag's entry in
\* latest_values replaced by (None, unit of the tag, delivery time); every
\* listener call it leads to carries None and that unit, and once the
\* notification thread is through, the caches of the listeners registered at
\* delivery hold None for the tag.
C17_TextPayloadStoredAbsent ==
    \A name \in TagNames :
        TextEvent(name) =>
            /\ EntryOf(latest_values, name) =
                   Sample(None, UnitOf(name), isoformat(lastEv[name].at))
            /\ (note["sub"].active /\ note["sub"].name = name) =>
                   note["sub"].value = None /\ note["sub"].unit = UnitOf(name)
            /\ ~note["sub"].active =>
                   /\ RegisteredAtDelivery(name, UnityCb) =>
                          /\ Has(unity_latest, name)
                          /\ Get(unity_latest, name).value = None
                          /\ Get(unity_latest, name).unit = UnitOf(name)
                   /\ (RegisteredAtDelivery(name, DbCb) /\ db_connected) =>
                          /\ Has(current_values, name)
                          /\ Get(current_values, name).value = None
                          /\ Get(current_values, name).unit = UnitOf(name)

\* a text payload for Temp1 followed a numeric one, behind a raising listener,
\* and the number is gone from all three caches
C17_Witness ==
    /\ ~note["sub"].active
    /\ TextEvent("Temp1") /\ lastEv["Temp1"].again
    /\ value_callbacks = << DbCb, UnityCb, FaultyCb >>
    /\ lastEv["Temp1"].regs = 3
    /\ EntryOf(latest_values, "Temp1").value = None
    /\ EntryOf(unity_latest, "Temp1").value = None
    /\ EntryOf(current_values, "Temp1").value = None

\* every key of the cache is a configured tag name and no key occurs twice
WithinRegistry(d) ==
    /\ Keys(d) \subseteq TagNames
    /\ \A i, j \in DOMAIN d : d[i].k = d[j].k => i = j

\* C18: each of the three latest-value caches holds only configured tag names,
\* each at most once, and the status read reports no more cached values than
\* monitored nodes.
C18_CachesWithinRegistry ==
    /\ WithinRegistry(latest_values)
    /\ WithinRegistry(unity_latest)
    /\ WithinRegistry(current_values)
    /\ get_status.values_count <= get_status.nodes_monitoring

\* both tags have been updated more than once and an event for an unknown
\* node has been handled; the status read reports as many values as nodes
C18_Witness ==
    /\ lastEv["Temp1"].again /\ lastEv["Flow"].again
    /\ unk.st = "after"
    /\ ~note["sub"].active
    /\ get_status.values_count = get_status.nodes_monitoring
    /\ Len(current_values) = Len(nodes_to_monitor)

\* the cached tags that have a column under the loaded mapping
MappedCached == Keys(current_values) \cap DOMAIN opc_to_db_mapping

\* C19: every column of an executing insert, besides the timestamp, is the
\* column the loaded mapping gives to a cached tag, one column per such tag at
\* most; a tag without a mapping adds none, and its updates still replace its
\* entry in latest_values, in the HTTP cache and in the storage cache.
C19_InsertColumnsFromMapping ==
    /\ \A w \in Workers :
          Inserting(w) =>
              /\ \A i \in DOMAIN wbatch[w] :
                     \E k \in MappedCached : opc_to_db_mapping[k] = wbatch[w][i].f
              /\ \A i, j \in DOMAIN wbatch[w] :
                     wbatch[w][i].f = wbatch[w][j].f => i = j
    /\ \A name \in TagNames \ DOMAIN opc_to_db_mapping :
          lastEv[name].seen =>
              /\ EntryOf(latest_values, name) = EventSample(name)
              /\ HoldsEvent(unity_latest, name, IsoStampsSince(name))
              /\ db_connected => HoldsEvent(current_values, name, StampsSince(name))

\* the connector holds a usable session and a worker thread is alive
Persisting ==
    /\ db_connected /\ cursor \in connAlive
    /\ \E v \in Workers : is_alive(v)

\* C20: after an insert of a worker has failed and with it the reconnect, the
\* storage being reachable again leads to a connected connector with a live
\* worker: from every such failure on, eventually the storage is unreachable
\* or the connector is persisting again.
C20_ReconnectRetried ==
    \A w \in Workers : hist[w].failed ~> (~dbUp \/ Persisting)

\* C21: a field session lost while the gateway runs leads to a fresh connect:
\* from every moment at which the session is gone, eventually the gateway
\* holds a live session again and is marked connected.
C21_FieldSessionRecovers ==
    (mpc = "run" /\ ~opcSession) ~> (opcSession /\ opc_connected)

\* the batch lines 141-146 build from cache d: one column per mapped tag
RECURSIVE BatchUpTo(_, _, _)
BatchUpTo(d, mapping, i) ==
    IF i = 0 THEN << >> ELSE BatchAdd(BatchUpTo(d, mapping, i - 1), mapping, d[i])

BatchOf(d, mapping) == BatchUpTo(d, mapping, Len(d))

\* the step with which worker w leaves the loop of line 141
EndsIteration(w) == wpc[w] = "iter" /\ wpc'[w] # "iter"

\* C22: a cycle works on the cache as it was when the cycle began: whatever
\* update arrives meanwhile, the loop over the cache ends with the batch of
\* that point-in-time copy and goes on to the insert (or ends the cycle when
\* the copy has no mapped tag); it is neither changed nor aborted.
C22_CycleOnSnapshot ==
    [][\A w \in Workers :
         EndsIteration(w) =>
             LET batch == BatchOf(hist[w].snap, opc_to_db_mapping)
             IN  IF Len(batch) = 0
                 THEN wpc'[w] # "exec"
                 ELSE wpc'[w] = "exec" /\ wbatch'[w] = batch]_vars

\* the persistence worker threads that are alive
AliveWorkers == {w \in Workers : is_alive(w)}

\* C23: at every moment at most one persistence worker thread is alive.
C23_AtMostOneWorker == Cardinality(AliveWorkers) <= 1

\* the disconnect() of signal_handler (line 39) has returned and main() is in
\* its finally block
DisconnectReturned == mret = "f_unity" /\ mpc \in {"f_unity", "f_db"}

\* C24: once the disconnect() of the shutdown has returned, no step executes an
\* insert, opens a storage connection, sets connected, or starts a persistence
\* worker.
C24_StorageStaysDown ==
    [][DisconnectReturned =>
          /\ conn' = 0
          /\ ~db_connected'
          /\ \A w \in Workers : wpc'[w] = "in_exec" => wpc[w] = "in_exec"
          /\ \A w \in Workers : wpc[w] = "none" => wpc'[w] = "none"]_vars

\* the calls under way on session c: inserts of workers and the HTTP query
InsertsOn(c) == {w \in Workers : wpc[w] = "in_exec" /\ wcur[w] = c}
QueriesOn(c) == IF req.pc = "in_query" /\ req.cur = c THEN 1 ELSE 0
UsersOf(c) == Cardinality(InsertsOn(c)) + QueriesOn(c)

\* C25: the storage session is used by one thread at a time: no two calls
\* (worker insert, HTTP history query) are under way on one session, a session
\* with a call under way is the one the connector holds (it has been neither
\* closed nor replaced), and log_event writes on a session with no call under
\* way.
C25_SessionOneUser ==
    /\ [](\A c \in 1..MaxConns :
            /\ UsersOf(c) <= 1
            /\ UsersOf(c) = 1 => cursor = c)
    /\ [][eventLog' # eventLog => UsersOf(cursor) = 0]_vars

\* value and unit of the entries of a store, by tag
ValueUnit(d) ==
    [name \in Keys(d) |-> [value |-> Get(d, name).value, unit |-> Get(d, name).unit]]

\* no _notify_callbacks call is under way on either thread
NoEventInProcess == \A t \in Notifiers : ~note[t].active

\* C26: with the gateway in its loop, the storage connected and no event in
\* process, OpcUaConnector.latest_values, UnityConnector.latest_values and
\* DbConnector.current_values hold the same tags with the same value and unit.
C26_StoresAgree ==
    (mpc = "run" /\ NoEventInProcess /\ db_exists /\ db_connected) =>
        /\ ValueUnit(unity_latest) = ValueUnit(latest_values)
        /\ ValueUnit(current_values) = ValueUnit(latest_values)

====
